---------------------------- MODULE Spec2Model ----------------------------
(***************************************************************************)
(* Whisper branch predictor (src/src/cpu/pred/whisper.cc, whisper.hh):     *)
(* hint codec, ROMBF evaluator, LRU hint buffer, per-thread global         *)
(* history and the composition with the fallback predictor.                *)
(*                                                                         *)
(* Representation.  A uint32_t hint word is the record [hi, lo] of its two *)
(* 16-bit halves (value = hi * 2^16 + lo), because a 32-bit unsigned value *)
(* does not fit TLC's integers.  Addr (64 bits in gem5) and the 1024-bit   *)
(* history register are modelled with the scaled widths AddrBits and       *)
(* HistBits; every arithmetic step keeps its modulus.                      *)
(***************************************************************************)
EXTENDS Integers, Sequences, FiniteSets, TLC

(***************************************************************************)
(* Bounds of the model.                                                    *)
(***************************************************************************)
\* params.hint_buffer_size: capacity of the hint buffer
hintBufferSize == 2
\* width of one global history register (std::bitset<1024> in the source)
HistBits == 9
\* width of Addr (uint64_t in gem5)
AddrBits == 13
\* conditional updateHistories calls allowed in Spec and SpecBuf (all threads)
CondCap == 1

(***************************************************************************)
(* Bit helpers.                                                            *)
(***************************************************************************)
\* x & mask(n) for a non-negative x (mask(n) has the n low bits set)
AndMask(x, n) == x % (2^n)

\* bit i of a non-negative integer, as std::bitset::operator[] reads it
Bit(x, i) == (x \div (2^i)) % 2

\* (w >> s) & mask(n) on a 32-bit word held as two 16-bit halves, s + n <= 32
ShrMask(w, s, n) ==
    IF s >= 16
    THEN (w.hi \div (2^(s - 16))) % (2^n)
    ELSE LET k == IF s + n > 16 THEN s + n - 16 ELSE 0
         IN  ((w.hi % (2^k)) * (2^(16 - s)) + (w.lo \div (2^s))) % (2^n)

\* to_bitset<N>(src): src & mask(N)
to_bitset(N, src) == AndMask(src, N)

(***************************************************************************)
(* Hint codec.                                                             *)
(***************************************************************************)
\* fromUInt with a 14-bit formula field (bits 27..14)
fromUInt_formula14(hint) ==
    [ history      |-> ShrMask(hint, 28, 4),
      bool_formula |-> ShrMask(hint, 14, 14),
      bias         |-> ShrMask(hint, 12, 2),
      pc_offset    |-> ShrMask(hint, 0, 12) ]

\* WhisperBP::Hint::fromUInt: the four bit fields of a hint word.  The
\* 15-bit bool_formula field (bits 28..14) overlaps bit 0 of history
\* (bits 31..28).
fromUInt(hint) ==
    [ history      |-> ShrMask(hint, 28, 4),
      bool_formula |-> ShrMask(hint, 14, 15),
      bias         |-> ShrMask(hint, 12, 2),
      pc_offset    |-> ShrMask(hint, 0, 12) ]

\* Hint::bool_formula_bits
bool_formula_bits(h) == to_bitset(15, h.bool_formula)

\* histLength with the case for index 15 missing from the switch
histLength_no15(h) ==
    CASE h.history = 0  -> 8
      [] h.history = 1  -> 11
      [] h.history = 2  -> 15
      [] h.history = 3  -> 21
      [] h.history = 4  -> 29
      [] h.history = 5  -> 40
      [] h.history = 6  -> 56
      [] h.history = 7  -> 77
      [] h.history = 8  -> 106
      [] h.history = 9  -> 147
      [] h.history = 10 -> 203
      [] h.history = 11 -> 281
      [] h.history = 12 -> 388
      [] h.history = 13 -> 536
      [] h.history = 14 -> 741
      [] OTHER          -> 0

\* WhisperBP::Hint::histLength, the switch over the 4-bit history field;
\* 0 stands for the default branch (assert(false); return 0)
histLength(h) ==
    CASE h.history = 0  -> 8
      [] h.history = 1  -> 11
      [] h.history = 2  -> 15
      [] h.history = 3  -> 21
      [] h.history = 4  -> 29
      [] h.history = 5  -> 40
      [] h.history = 6  -> 56
      [] h.history = 7  -> 77
      [] h.history = 8  -> 106
      [] h.history = 9  -> 147
      [] h.history = 10 -> 203
      [] h.history = 11 -> 281
      [] h.history = 12 -> 388
      [] h.history = 13 -> 536
      [] h.history = 14 -> 741
      [] h.history = 15 -> 1024
      [] OTHER          -> 0

(***************************************************************************)
(* ROMBF evaluator.                                                        *)
(***************************************************************************)
\* ROMBFSingleUnit inverting b[0] on o[0] instead of o[1]
ROMBFSingleUnit_invertsOnO0(o, b) ==
    LET b0i == IF Bit(o, 0) = 1 THEN Bit(b, 0) = 0 ELSE Bit(b, 0) = 1
    IN  IF Bit(o, 1) # Bit(o, 0)
        THEN (Bit(b, 1) = 1) \/ b0i
        ELSE (Bit(b, 1) = 1) /\ b0i

\* ROMBFSingleUnit(o, b) on two 2-bit values
ROMBFSingleUnit(o, b) ==
    LET b0i == IF Bit(o, 1) = 1 THEN Bit(b, 0) = 0 ELSE Bit(b, 0) = 1
    IN  IF Bit(o, 1) # Bit(o, 0)
        THEN (Bit(b, 1) = 1) \/ b0i
        ELSE (Bit(b, 1) = 1) /\ b0i

\* bool -> 0/1, the integral promotion in (u1 << 1) | u0
B2N(u) == IF u THEN 1 ELSE 0

\* ROMBFUnit(o, b): o is a std::bitset<15>, b a std::bitset<8>.  o[15] reads
\* past the 15 bits of o; the storage word of a bitset<15> keeps its unused
\* high bits zero, so the read is bit 15 of the 15-bit value.
ROMBFUnit(o, b) ==
    LET o10   == AndMask(o, 2)
        b10   == AndMask(b, 2)
        u0    == ROMBFSingleUnit(o10, b10)
        o54   == AndMask(o \div 16, 2)
        b32   == AndMask(b \div 4, 2)
        u1    == ROMBFSingleUnit(o54, b32)
        o32   == AndMask(o \div 4, 2)
        u10   == AndMask(B2N(u1) * 2 + B2N(u0), 2)
        u2    == ROMBFSingleUnit(o32, u10)
        o98   == AndMask(o \div 256, 2)
        b54   == AndMask(b \div 16, 2)
        u3    == ROMBFSingleUnit(o98, b54)
        o1312 == AndMask(o \div 4096, 2)
        b76   == AndMask(b \div 64, 2)
        u4    == ROMBFSingleUnit(o1312, b76)
        o1110 == AndMask(o \div 1024, 2)
        u43   == AndMask(B2N(u4) * 2 + B2N(u3), 2)
        u5    == ROMBFSingleUnit(o1110, u43)
        o76   == AndMask(o \div 64, 2)
        u52   == AndMask(B2N(u5) * 2 + B2N(u2), 2)
        u6    == ROMBFSingleUnit(o76, u52)
    IN  IF Bit(to_bitset(15, o), 15) = 1 THEN u6 ELSE ~u6

(***************************************************************************)
(* Input domains.                                                          *)
(***************************************************************************)
\* bitwise OR of two non-negative integers
RECURSIVE BitOr(_, _)
BitOr(a, b) ==
    IF a = 0 THEN b
    ELSE IF b = 0 THEN a
    ELSE (IF a % 2 = 1 \/ b % 2 = 1 THEN 1 ELSE 0) + 2 * BitOr(a \div 2, b \div 2)

\* the hint encoder of the test fixtures:
\* (h<<28) | ((f & 0x7FFF) << 14) | ((b & 3) << 12) | (o & 0xFFF), in halves
encode(h, f, b, o) ==
    [ hi |-> BitOr(h * 4096, AndMask(f, 15) \div 4),
      lo |-> AndMask(f, 2) * 16384 + AndMask(b, 2) * 4096 + AndMask(o, 12) ]

Threads == {0, 1}

\* bp_history tokens: 0 is nullptr, 1 an object of the fallback predictor
BpHistories == {0, 1}

\* hint words of Spec: a static bias on each side, a formula hint over 8
\* bits of history with each formula bias, a formula hint with a longer
\* history; several formulas and history selectors
SpecWords ==
    { encode(3, 10922, 0, 4), encode(0, 5461, 3, 0),
      encode(0, 5461, 1, 0),  encode(0, 0, 2, 4),
      encode(1, 5461, 2, 0) }

\* hint words of SpecBuf: one that predict answers and one it declines, on
\* two offsets
BufWords == { encode(0, 5461, 1, 0), encode(2, 0, 2, 4) }

\* hint words of SpecHist: formula hints over 8 bits of history
HistWords == { encode(0, 5461, 2, 0), encode(0, 6969, 1, 0) }

\* words a freed list node may be found to hold: one for each way predict
\* can go (bias 00, bias 11, formula over 8 bits, longer history)
FreedWords ==
    { encode(0, 0, 0, 0), encode(0, 0, 3, 0), encode(0, 10922, 1, 0),
      encode(7, 0, 2, 0) }

\* PCs of hint instructions; the last one makes pc + pc_offset wrap
HintPCs == {0, 2^AddrBits - 4}

\* PCs of branches
BranchPCs == {0, 4, 2^AddrBits - 4}

(***************************************************************************)
(* State.                                                                  *)
(***************************************************************************)
VARIABLES
    hintBuffer,     \* std::list<HintBufferEntry>: front (LRU) .. back (MRU)
    globalHistory,  \* std::map<ThreadID, std::bitset<1024>>
    last,           \* the last call: operation, arguments, locals, result
    fbCalls,        \* calls the last operation made on fallbackPredictor
    outcomes,       \* per thread: taken of its conditional updateHistories
                    \* calls, most recent first
    scen,           \* progress through scenario D (-1: left the scenario)
    fnArg,          \* argument of the pure function being applied
    fnRes           \* its result

vars == <<hintBuffer, globalHistory, last, fbCalls, outcomes, scen, fnArg, fnRes>>

NoWord == [hi |-> 0, lo |-> 0]
NoEntry == [addr |-> 0, hint |-> NoWord]

\* a call record; the fields an operation does not have keep these values
Call(op) ==
    [ op |-> op, tid |-> 0, pc |-> 0, uncond |-> FALSE, taken |-> FALSE,
      squashed |-> FALSE, bp |-> 0, hint |-> NoWord ]

\* the record of a finished call: found / entry are hint_it of the handler
\* fbRet is what fallbackPredictor->lookup returned, bpOut the caller's
\* bp_history after the call
Done(call, found, entry, ret, fbRet, bpOut) ==
    [ call |-> call, found |-> found, entry |-> entry, ret |-> ret,
      fbRet |-> fbRet, bpOut |-> bpOut ]

(***************************************************************************)
(* Hint buffer.                                                            *)
(***************************************************************************)
\* lookupBuffer with the search stopping one entry early
lookupBuffer_skipsBack(buf, pc) ==
    LET hits == {i \in 1..(Len(buf) - 1) : buf[i].addr = pc}
    IN  IF hits = {} THEN 0
        ELSE CHOOSE i \in hits : \A j \in hits : i <= j

\* WhisperBP::lookupBuffer: std::find_if front to back; 0 stands for end()
lookupBuffer(buf, pc) ==
    LET hits == {i \in 1..Len(buf) : buf[i].addr = pc}
    IN  IF hits = {} THEN 0
        ELSE CHOOSE i \in hits : \A j \in hits : i <= j

\* markUsed erasing the hit without appending its copy
markUsed_dropsHit(buf, it) ==
    IF it = 0 THEN buf
    ELSE [j \in 1..(Len(buf) - 1) |-> IF j < it THEN buf[j] ELSE buf[j + 1]]

\* markUsed leaving the entry where it is
markUsed_noMove(buf, it) == buf

\* WhisperBP::markUsed: emplace_back(*it); erase(it)
markUsed(buf, it) ==
    IF it = 0 THEN buf
    ELSE LET ext == Append(buf, buf[it])
         IN  [j \in 1..Len(buf) |-> IF j < it THEN ext[j] ELSE ext[j + 1]]

\* the eviction loop testing size > hintBufferSize
RECURSIVE evictFront_late(_)
evictFront_late(buf) ==
    IF Len(buf) > hintBufferSize /\ buf # <<>>
    THEN evictFront_late(Tail(buf))
    ELSE buf

\* the while loop of WhisperBP::insert: pop_front while size >= hintBufferSize
\* (buf # <<>> matters only for hintBufferSize = 0, where the source pops an
\* empty list)
RECURSIVE evictFront(_)
evictFront(buf) ==
    IF Len(buf) >= hintBufferSize /\ buf # <<>>
    THEN evictFront(Tail(buf))
    ELSE buf

\* insert storing the hint under the PC of the hint instruction
insertBuffer_noOffset(buf, pc, hint) ==
    Append(evictFront(buf), [addr |-> pc % (2^AddrBits), hint |-> hint])

\* the buffer after WhisperBP::insert(pc, hint)
insertBuffer(buf, pc, hint) ==
    LET hint_obj == fromUInt(hint)
        brPC     == (pc + hint_obj.pc_offset) % (2^AddrBits)
    IN  Append(evictFront(buf), [addr |-> brPC, hint |-> hint])

(***************************************************************************)
(* Global history.                                                         *)
(***************************************************************************)
\* globalHistory[tid] of std::map: a missing key is inserted with all zeros
touch(gh, tid) ==
    IF tid \in DOMAIN gh THEN gh
    ELSE [t \in DOMAIN gh \cup {tid} |-> IF t = tid THEN 0 ELSE gh[t]]

\* the register of a thread as a later reference reads it
History(gh, tid) == IF tid \in DOMAIN gh THEN gh[tid] ELSE 0

\* updateGlobalHistory shifting without recording the outcome
updateGlobalHistory_dropsTaken(gh, tid, taken) ==
    LET g == touch(gh, tid)
    IN  [g EXCEPT ![tid] = (g[tid] * 2) % (2^HistBits)]

\* WhisperBP::updateGlobalHistory: (globalHistory[tid] << 1) | taken
updateGlobalHistory(gh, tid, taken) ==
    LET g == touch(gh, tid)
    IN  [g EXCEPT ![tid] = (g[tid] * 2 + B2N(taken)) % (2^HistBits)]

(***************************************************************************)
(* predict.                                                                *)
(***************************************************************************)
\* What hint_it->hint can yield in WhisperBP::predict.  predict calls
\* markUsed(hint_it) first, and markUsed erases the node hint_it points to
\* (after copying it to the back), so the read is of a freed list node:
\* undefined behaviour.  The freed node may still hold the word it held, or
\* anything the allocator left there; the model lets it be the word it
\* held or any word of FreedWords.
danglingRead(buf, it) == {buf[it].hint} \cup FreedWords

\* the part of predict after the hint word has been read: the prediction
\* (<<>> is std::nullopt) and the history map, which the histLength() == 8
\* branch references with operator[]
predictWithHint(hint, gh, tid) ==
    IF hint.bias = 0 THEN [pred |-> <<FALSE>>, gh |-> gh]
    ELSE IF hint.bias = 3 THEN [pred |-> <<TRUE>>, gh |-> gh]
    ELSE IF histLength(hint) = 8
    THEN LET g    == touch(gh, tid)
             \* (globalHistory[tid] & bitmask).to_ulong() into a bitset<8>
             hist == AndMask(AndMask(g[tid], 8), 8)
         IN  [pred |-> <<ROMBFUnit(bool_formula_bits(hint), hist)>>, gh |-> g]
    ELSE [pred |-> <<>>, gh |-> gh]

\* WhisperBP::predict(tid, pc, _): every outcome it can have on the current
\* state; the buffer after it is markUsed(hintBuffer, lookupBuffer(..))
predict(tid, pc) ==
    LET hint_it == lookupBuffer(hintBuffer, pc)
    IN  IF hint_it = 0
        THEN {[pred |-> <<>>, gh |-> globalHistory]}
        ELSE {predictWithHint(fromUInt(w), globalHistory, tid) :
                  w \in danglingRead(hintBuffer, hint_it)}

\* hint_it of a handler as the record keeps it
FoundEntry(buf, pc) ==
    IF lookupBuffer(buf, pc) = 0 THEN NoEntry ELSE buf[lookupBuffer(buf, pc)]

(***************************************************************************)
(* Operations.                                                             *)
(***************************************************************************)
\* scenario D of the specification: capacity 2, insert A, B, C, lookup(B),
\* insert D
ScenA == [pc |-> 0, hint |-> encode(0, 5461, 1, 0)]
ScenB == [pc |-> 0, hint |-> encode(2, 0, 2, 4)]
ScenC == [pc |-> 2^AddrBits - 4, hint |-> encode(0, 5461, 1, 0)]
ScenD == [pc |-> 2^AddrBits - 4, hint |-> encode(2, 0, 2, 4)]
ScenEntry(x) ==
    [addr |-> (x.pc + (x.hint.lo % 4096)) % (2^AddrBits), hint |-> x.hint]

ScenAfterInsert(pc, hint) ==
    LET x == [pc |-> pc, hint |-> hint]
    IN  IF (scen = 0 /\ x = ScenA) \/ (scen = 1 /\ x = ScenB)
           \/ (scen = 2 /\ x = ScenC) \/ (scen = 4 /\ x = ScenD)
        THEN scen + 1 ELSE -1

ScenAfterLookup(pc) ==
    IF scen = 3 /\ pc = ScenEntry(ScenB).addr THEN 4 ELSE -1

\* WhisperBP::insert(pc, hint)
insert(pc, hint) ==
    /\ hintBuffer' = insertBuffer(hintBuffer, pc, hint)
    /\ last' = Done([Call("insert") EXCEPT !.pc = pc, !.hint = hint],
                    FALSE, NoEntry, FALSE, FALSE, 0)
    /\ fbCalls' = <<>>
    /\ scen' = ScenAfterInsert(pc, hint)
    /\ UNCHANGED <<globalHistory, outcomes, fnArg, fnRes>>

\* WhisperBP::lookup(tid, pc, bp_history); the fallback's lookup returns any
\* direction and may set bp_history
lookupCall(tid, pc, bp) ==
    LET call == [Call("lookup") EXCEPT !.tid = tid, !.pc = pc, !.bp = bp]
        it   == lookupBuffer(hintBuffer, pc)
    IN  /\ hintBuffer' = markUsed(hintBuffer, it)
        /\ \E o \in predict(tid, pc) :
              /\ globalHistory' = o.gh
              /\ IF o.pred # <<>>
                 THEN /\ fbCalls' = <<>>
                      /\ last' = Done(call, it # 0, FoundEntry(hintBuffer, pc),
                                      o.pred[1], FALSE, bp)
                 ELSE \E r \in BOOLEAN, nb \in BpHistories :
                      /\ fbCalls' = <<call>>
                      /\ last' = Done(call, it # 0, FoundEntry(hintBuffer, pc),
                                      r, r, nb)
        /\ scen' = ScenAfterLookup(pc)
        /\ UNCHANGED <<outcomes, fnArg>>

lookup(tid, pc, bp) == lookupCall(tid, pc, bp) /\ UNCHANGED fnRes

\* WhisperBP::updateHistories(tid, pc, uncond, taken, target, bp_history)
updateHistories(tid, pc, uncond, taken, bp) ==
    LET call == [Call("updateHistories") EXCEPT !.tid = tid, !.pc = pc,
                     !.uncond = uncond, !.taken = taken, !.bp = bp]
        it   == lookupBuffer(hintBuffer, pc)
    IN  /\ globalHistory' = IF ~uncond
                            THEN updateGlobalHistory(globalHistory, tid, taken)
                            ELSE globalHistory
        /\ outcomes' = IF ~uncond
                       THEN [outcomes EXCEPT ![tid] = <<taken>> \o @]
                       ELSE outcomes
        /\ fbCalls' = IF it = 0 THEN <<call>> ELSE <<>>
        /\ last' = Done(call, it # 0, FoundEntry(hintBuffer, pc), FALSE,
                        FALSE, bp)
        /\ scen' = -1
        /\ UNCHANGED <<hintBuffer, fnArg, fnRes>>

\* WhisperBP::update(tid, pc, taken, bp_history, squashed, inst, target)
update(tid, pc, taken, bp, squashed) ==
    LET call == [Call("update") EXCEPT !.tid = tid, !.pc = pc,
                     !.taken = taken, !.bp = bp, !.squashed = squashed]
        buf1 == IF ~squashed
                THEN markUsed(hintBuffer, lookupBuffer(hintBuffer, pc))
                ELSE hintBuffer
        it   == lookupBuffer(buf1, pc)
    IN  /\ hintBuffer' = buf1
        /\ IF ~squashed
           THEN \E o \in predict(tid, pc) : globalHistory' = o.gh
           ELSE globalHistory' = globalHistory
        /\ fbCalls' = IF it = 0 THEN <<call>> ELSE <<>>
        /\ last' = Done(call, it # 0, FoundEntry(buf1, pc), FALSE, FALSE, bp)
        /\ scen' = -1
        /\ UNCHANGED <<outcomes, fnArg, fnRes>>

\* squash rewinding the newest history bit of the thread
squash_rewinds(tid, bp) ==
    LET call == [Call("squash") EXCEPT !.tid = tid, !.bp = bp]
    IN  /\ fbCalls' = IF bp # 0 THEN <<call>> ELSE <<>>
        /\ last' = Done(call, FALSE, NoEntry, FALSE, FALSE, bp)
        /\ globalHistory' = [t \in DOMAIN globalHistory |->
                                IF t = tid THEN globalHistory[t] \div 2
                                ELSE globalHistory[t]]
        /\ scen' = -1
        /\ UNCHANGED <<hintBuffer, outcomes, fnArg, fnRes>>

\* WhisperBP::squash(tid, bp_history)
squash(tid, bp) ==
    LET call == [Call("squash") EXCEPT !.tid = tid, !.bp = bp]
    IN  /\ fbCalls' = IF bp # 0 THEN <<call>> ELSE <<>>
        /\ last' = Done(call, FALSE, NoEntry, FALSE, FALSE, bp)
        /\ scen' = -1
        /\ UNCHANGED <<hintBuffer, globalHistory, outcomes, fnArg, fnRes>>

(***************************************************************************)
(* Specifications.                                                         *)
(***************************************************************************)
NCond == Len(outcomes[0]) + Len(outcomes[1])

\* the state after WhisperBP::WhisperBP
Init ==
    /\ hintBuffer = <<>>
    /\ globalHistory = <<>>
    /\ last = Done(Call("init"), FALSE, NoEntry, FALSE, FALSE, 0)
    /\ fbCalls = <<>>
    /\ outcomes = [t \in Threads |-> <<>>]
    /\ scen = 0
    /\ fnArg = <<>>
    /\ fnRes = <<>>

\* Spec: the predictor protocol on one thread, hints of every kind on two
\* branch addresses
Next ==
    \/ \E w \in SpecWords : insert(0, w)
    \/ \E pc \in {0, 4}, bp \in BpHistories : lookup(0, pc, bp)
    \/ \E pc \in {0, 4}, u \in BOOLEAN, k \in BOOLEAN :
          /\ (u \/ NCond < CondCap)
          /\ updateHistories(0, pc, u, k, 0)
    \/ \E pc \in {0, 4}, k \in BOOLEAN, s \in BOOLEAN : update(0, pc, k, 0, s)
    \/ \E bp \in BpHistories : squash(0, bp)

Spec == Init /\ [][Next]_vars

\* SpecBuf: the hint buffer under every operation; four distinct entries
\* on three branch addresses, one of them reached by wrapping
NextBuf ==
    \/ \E pc \in HintPCs, w \in BufWords : insert(pc, w)
    \/ \E pc \in BranchPCs : lookup(0, pc, 0)
    \/ \E pc \in BranchPCs, u \in BOOLEAN, k \in BOOLEAN :
          /\ (u \/ NCond < CondCap)
          /\ updateHistories(0, pc, u, k, 0)
    \/ \E pc \in BranchPCs, s \in BOOLEAN : update(0, pc, FALSE, 0, s)
    \/ \E bp \in BpHistories : squash(0, bp)

SpecBuf == Init /\ [][NextBuf]_vars

\* SpecHist: the history register of one thread through HistBits + 1
\* conditional branches, with a formula hint for branch 0 already inserted
InitHist ==
    /\ \E w \in HistWords : hintBuffer = insertBuffer(<<>>, 0, w)
    /\ globalHistory = <<>>
    /\ last = Done(Call("init"), FALSE, NoEntry, FALSE, FALSE, 0)
    /\ fbCalls = <<>>
    /\ outcomes = [t \in Threads |-> <<>>]
    /\ scen = -1
    /\ fnArg = <<>>
    /\ fnRes = <<>>

NextHist ==
    \/ \E pc \in {0, 4} : lookup(0, pc, 0)
    \/ \E pc \in {0, 4}, u \in BOOLEAN, k \in BOOLEAN :
          /\ (u \/ Len(outcomes[0]) <= HistBits)
          /\ updateHistories(0, pc, u, k, 0)

SpecHist == InitHist /\ [][NextHist]_vars

\* SpecCodec: the decoder on encoded hint words; the fields to encode run
\* over every history selector and over values inside and outside the
\* masks of the other fields
CodecArgs ==
    [ h : 0..15,
      f : {0, 1, 5461, 16384, 32767, 32768, 65535},
      b : {0, 1, 2, 3, 4, 7},
      o : {0, 1, 4095, 4096, 8191} ]

InitCodec ==
    /\ hintBuffer = <<>>
    /\ globalHistory = <<>>
    /\ last = Done(Call("init"), FALSE, NoEntry, FALSE, FALSE, 0)
    /\ fbCalls = <<>>
    /\ outcomes = [t \in Threads |-> <<>>]
    /\ scen = -1
    /\ fnArg \in CodecArgs
    /\ fnRes = <<>>

\* Hint::fromUInt applied to encode(h, f, b, o)
decode ==
    /\ fnRes = <<>>
    /\ fnRes' = <<fromUInt(encode(fnArg.h, fnArg.f, fnArg.b, fnArg.o))>>
    /\ UNCHANGED <<hintBuffer, globalHistory, last, fbCalls, outcomes, scen, fnArg>>

NextCodec == decode

SpecCodec == InitCodec /\ [][NextCodec]_vars

\* SpecRombf: the ROMBF evaluator on every 8-bit history and on formula
\* selectors in which every subunit takes each of its four selectors
\* against four settings of the other subunits, with bit 14 clear and set
RombfSelectors ==
    { ((base - ((base \div (4^p)) % 4) * (4^p)) + v * (4^p)) + top * 16384 :
          base \in {0, 5461, 10922, 16383}, p \in 0..6, v \in 0..3,
          top \in {0, 1} }

RombfArgs == [ o : RombfSelectors, b : 0..255 ]

InitRombf ==
    /\ hintBuffer = <<>>
    /\ globalHistory = <<>>
    /\ last = Done(Call("init"), FALSE, NoEntry, FALSE, FALSE, 0)
    /\ fbCalls = <<>>
    /\ outcomes = [t \in Threads |-> <<>>]
    /\ scen = -1
    /\ fnArg \in RombfArgs
    /\ fnRes = <<>>

\* ROMBFUnit applied to a selector and a history
evalROMBF ==
    /\ fnRes = <<>>
    /\ fnRes' = <<ROMBFUnit(fnArg.o, fnArg.b)>>
    /\ UNCHANGED <<hintBuffer, globalHistory, last, fbCalls, outcomes, scen, fnArg>>

NextRombf == evalROMBF

SpecRombf == InitRombf /\ [][NextRombf]_vars

\* SpecSized: insert statement by statement on predictors whose
\* hint_buffer_size parameter is 0 or 1.  fnArg holds the parameter; fnRes
\* is the position of the caller: <<>> between calls, <<"while", pc, hint>>
\* at the loop test of insert(pc, hint), <<"aborted", pc, hint>> once the
\* process has died inside the call.
Capacities == {0, 1}

InitSized ==
    /\ hintBuffer = <<>>
    /\ globalHistory = <<>>
    /\ last = Done(Call("init"), FALSE, NoEntry, FALSE, FALSE, 0)
    /\ fbCalls = <<>>
    /\ outcomes = [t \in Threads |-> <<>>]
    /\ scen = -1
    /\ fnArg \in [hint_buffer_size : Capacities]
    /\ fnRes = <<>>

InWhile == Len(fnRes) > 0 /\ fnRes[1] = "while"

\* entry of WhisperBP::insert(pc, hint)
insertCall(pc, hint) ==
    /\ fnRes = <<>>
    /\ fnRes' = <<"while", pc, hint>>
    /\ UNCHANGED <<hintBuffer, globalHistory, last, fbCalls, outcomes, scen, fnArg>>

\* one iteration of the while loop: the test hintBuffer.size() >=
\* hintBufferSize holds and pop_front() runs.  On an empty list pop_front()
\* is undefined: the process dies in it, or the loop goes on with the
\* unsigned test still true.
insertPopFront ==
    /\ InWhile
    /\ Len(hintBuffer) >= fnArg.hint_buffer_size
    /\ IF hintBuffer # <<>>
       THEN /\ hintBuffer' = Tail(hintBuffer)
            /\ fnRes' = fnRes
       ELSE /\ hintBuffer' = hintBuffer
            /\ fnRes' \in {fnRes, <<"aborted", fnRes[2], fnRes[3]>>}
    /\ UNCHANGED <<globalHistory, last, fbCalls, outcomes, scen, fnArg>>

\* the loop test fails: emplace_back and return
insertEmplace ==
    /\ InWhile
    /\ ~(Len(hintBuffer) >= fnArg.hint_buffer_size)
    /\ LET hint_obj == fromUInt(fnRes[3])
           brPC     == (fnRes[2] + hint_obj.pc_offset) % (2^AddrBits)
       IN  hintBuffer' = Append(hintBuffer, [addr |-> brPC, hint |-> fnRes[3]])
    /\ last' = Done([Call("insert") EXCEPT !.pc = fnRes[2], !.hint = fnRes[3]],
                    FALSE, NoEntry, FALSE, FALSE, 0)
    /\ fbCalls' = <<>>
    /\ fnRes' = <<>>
    /\ UNCHANGED <<globalHistory, outcomes, scen, fnArg>>

NextSized ==
    \/ \E pc \in HintPCs, w \in BufWords : insertCall(pc, w)
    \/ insertPopFront
    \/ insertEmplace
    \/ \E pc \in BranchPCs, bp \in BpHistories :
          fnRes = <<>> /\ lookup(0, pc, bp)

SpecSized == InitSized /\ [][NextSized]_vars /\ WF_vars(NextSized)

\* SpecRace: the lookup / updateHistories / update calls of branch 0
\* interleaved with insert calls.  fnRes keeps the latest lookup of the
\* branch: its thread, its pc and whether it went to fallback.lookup.
lookupBranch(tid, pc, bp) ==
    /\ lookupCall(tid, pc, bp)
    /\ fnRes' = <<[tid |-> tid, pc |-> pc, delegated |-> fbCalls' # <<>>]>>

NextRace ==
    \/ \E w \in BufWords : insert(0, w)
    \/ \E bp \in BpHistories : lookupBranch(0, 0, bp)
    \/ \E u \in BOOLEAN, k \in BOOLEAN :
          /\ (u \/ NCond < CondCap)
          /\ updateHistories(0, 0, u, k, 0)
    \/ \E k \in BOOLEAN, sq \in BOOLEAN : update(0, 0, k, 0, sq)

SpecRace == Init /\ [][NextRace]_vars

\* SpecThreads: two threads sharing one predictor that holds a formula
\* hint for branch 0; each thread records up to ThreadConds conditional
\* outcomes and looks branch 0 up
ThreadConds == 2

NextThreads ==
    \/ \E t \in Threads : lookup(t, 0, 0)
    \/ \E t \in Threads, u \in BOOLEAN, k \in BOOLEAN :
          /\ (u \/ Len(outcomes[t]) < ThreadConds)
          /\ updateHistories(t, 4, u, k, 0)

SpecThreads == InitHist /\ [][NextThreads]_vars

(***************************************************************************)
(* Claims.                                                                 *)
(***************************************************************************)
\* the decoded hint of the entry the last call found
FoundHint == fromUInt(last.entry.hint)

\* an entry of buf has addr = pc
InBuffer(buf, pc) == \E i \in 1..Len(buf) : buf[i].addr = pc

\* C1: a lookup that finds an entry whose bias is 00 or 11 returns
\* (bias = 11), whatever the formula, the history selector and the global
\* history are, does not call the fallback and leaves bp_history alone.
C1_BiasDecidesLookup ==
    (last.call.op = "lookup" /\ last.found /\ FoundHint.bias \in {0, 3})
        => /\ last.ret = (FoundHint.bias = 3)
           /\ fbCalls = <<>>
           /\ last.bpOut = last.call.bp

\* C2: lookup calls fallback.lookup exactly once, with its own arguments,
\* and returns the fallback's result when no entry has addr = pc or the
\* entry found has bias 01 / 10 and a history length above 8; in every
\* other case it does not call the fallback.
C2_FallbackIffDeclined ==
    last.call.op = "lookup"
        => IF ~last.found
              \/ (FoundHint.bias \in {1, 2} /\ histLength(FoundHint) > 8)
           THEN fbCalls = <<last.call>> /\ last.ret = last.fbRet
           ELSE fbCalls = <<>>

\* C7: updateHistories and update forward to the fallback, once and with
\* their own arguments, exactly when no entry of the buffer has addr = pc
\* when they are called; with such an entry they do not call the fallback.
C7_ForwardIffMiss ==
    [][ last'.call.op \in {"updateHistories", "update"}
            => fbCalls' = IF InBuffer(hintBuffer, last'.call.pc)
                          THEN <<>> ELSE <<last'.call>> ]_vars

\* an update for a squashed branch whose pc has a hint that predict declines
\* (bias 10, history length 11) was not forwarded
C7_Witness ==
    /\ last.call.op = "update" /\ last.call.squashed
    /\ last.found /\ FoundHint.bias = 2 /\ histLength(FoundHint) = 11
    /\ fbCalls = <<>>

\* C8: squash forwards to the fallback exactly once, with its tid and
\* token, when bp_history is not null and calls nothing when it is null; the
\* hint buffer and every global history are what they were before.
C8_SquashFrame ==
    [][ last'.call.op = "squash"
            => /\ hintBuffer' = hintBuffer
               /\ globalHistory' = globalHistory
               /\ fbCalls' = IF last'.call.bp # 0 THEN <<last'.call>> ELSE <<>> ]_vars

\* a squash with a token was forwarded while the thread's history holds a
\* taken branch and the buffer holds a hint
C8_Witness ==
    /\ last.call.op = "squash" /\ last.call.bp = 1
    /\ fbCalls = <<last.call>>
    /\ History(globalHistory, 0) = 1
    /\ hintBuffer # <<>>

\* the low n bits of a history register that holds the outcomes os (most
\* recent first): bit k is os[k + 1], and 0 when there is no such outcome
RECURSIVE OutcomeBits(_, _)
OutcomeBits(os, n) ==
    IF n = 0 \/ os = <<>> THEN 0
    ELSE B2N(Head(os)) + 2 * OutcomeBits(Tail(os), n - 1)

\* C3: a lookup that finds a hint with bias 01 or 10 and history selector 0
\* returns ROMBF(hint.bool_formula, H), H being the low 8 bits of the
\* thread's history: bit k is the taken value of the (k+1)-th most recent
\* conditional updateHistories call of the thread, 0 if there is none.
C3_FormulaOverLow8 ==
    (last.call.op = "lookup" /\ last.found
        /\ FoundHint.bias \in {1, 2} /\ FoundHint.history = 0)
        => last.ret = ROMBFUnit(FoundHint.bool_formula,
                                OutcomeBits(outcomes[last.call.tid], 8))

\* C4: the hint buffer never holds more than hintBufferSize entries.
C4_BufferBounded == Len(hintBuffer) <= hintBufferSize

\* the third insert into an empty buffer of capacity 2 left it full
C4_Witness ==
    /\ last.call.op = "insert" /\ scen = 3
    /\ hintBufferSize < 3
    /\ Len(hintBuffer) = hintBufferSize

\* C5: a lookup of a pc that some entry has selects the first such entry
\* front to back; after it that entry, unchanged, is the last one, the other
\* entries keep their order and the length is the same.
C5_HitMovesFirstMatchToBack ==
    [][ (last'.call.op = "lookup" /\ InBuffer(hintBuffer, last'.call.pc))
            => LET n == Len(hintBuffer)
                   i == CHOOSE x \in 1..n :
                            /\ hintBuffer[x].addr = last'.call.pc
                            /\ \A y \in 1..(x - 1) :
                                   hintBuffer[y].addr # last'.call.pc
               IN  /\ last'.found /\ last'.entry = hintBuffer[i]
                   /\ Len(hintBuffer') = n
                   /\ hintBuffer'[n] = hintBuffer[i]
                   /\ \A y \in 1..(i - 1) : hintBuffer'[y] = hintBuffer[y]
                   /\ \A y \in (i + 1)..n : hintBuffer'[y - 1] = hintBuffer[y] ]_vars

\* of two entries for one address with different hints the front one was
\* found, predict declined it to the fallback, and it is now at the back
C5_Witness ==
    /\ last.call.op = "lookup" /\ last.found
    /\ Len(hintBuffer) = 2
    /\ hintBuffer[1].addr = hintBuffer[2].addr
    /\ hintBuffer[1].hint # hintBuffer[2].hint
    /\ hintBuffer[2] = last.entry
    /\ FoundHint.bias = 2 /\ histLength(FoundHint) = 15
    /\ fbCalls = <<last.call>>

\* C6: insert(pc, hint) appends {(pc + (hint & 0xFFF)) mod 2^AddrBits, hint}
\* at the back; the front entry is removed if the buffer held hintBufferSize
\* entries, no entry is removed if it held fewer, the others keep their
\* order.  With capacity 2: insert A, B, C, lookup(B), insert D leaves
\* [B, D].
C6_InsertAppendsEvictsFront ==
    [][ /\ last'.call.op = "insert"
            => LET e    == [addr |-> (last'.call.pc + (last'.call.hint.lo % 4096))
                                         % (2^AddrBits),
                            hint |-> last'.call.hint]
                   kept == IF Len(hintBuffer) = hintBufferSize
                           THEN Tail(hintBuffer) ELSE hintBuffer
               IN  /\ Len(hintBuffer) <= hintBufferSize
                   /\ hintBuffer' = Append(kept, e)
        /\ (hintBufferSize = 2 /\ scen' = 3)
            => hintBuffer' = <<ScenEntry(ScenB), ScenEntry(ScenC)>>
        /\ (hintBufferSize = 2 /\ scen' = 4)
            => hintBuffer' = <<ScenEntry(ScenC), ScenEntry(ScenB)>>
        /\ (hintBufferSize = 2 /\ scen' = 5)
            => hintBuffer' = <<ScenEntry(ScenB), ScenEntry(ScenD)>> ]_vars

\* scenario D has run to its end; the address of D came from a wrapped sum
C6_Witness ==
    /\ scen = 5 /\ last.call.op = "insert"
    /\ hintBuffer = <<ScenEntry(ScenB), ScenEntry(ScenD)>>
    /\ last.call.pc + (last.call.hint.lo % 4096) = 2^AddrBits

\* every thread's register holds its recorded outcomes: bit k is the taken
\* value supplied k conditional updates ago
HistoryHoldsOutcomes ==
    \A t \in Threads :
        History(globalHistory, t) = OutcomeBits(outcomes[t], HistBits)

\* C9: updateHistories leaves the history map alone when uncond is true and
\* otherwise sets the thread's register to (old << 1) | taken, truncated to
\* the register width, whether or not pc is in the hint buffer; so bit k of
\* a register is the taken value supplied k conditional updates ago.
C9_ShiftInTaken ==
    [][ /\ last'.call.op = "updateHistories"
            => IF last'.call.uncond
               THEN globalHistory' = globalHistory
               ELSE \A t \in Threads :
                        History(globalHistory', t) =
                            IF t = last'.call.tid
                            THEN (History(globalHistory, t) * 2
                                     + B2N(last'.call.taken)) % (2^HistBits)
                            ELSE History(globalHistory, t)
        /\ HistoryHoldsOutcomes' ]_vars

\* a conditional update for a pc with a hint shifted a taken outcome out of
\* the register, HistBits + 1 outcomes having been recorded
C9_Witness ==
    /\ last.call.op = "updateHistories" /\ ~last.call.uncond
    /\ last.found
    /\ Len(outcomes[0]) = HistBits + 1
    /\ outcomes[0][HistBits + 1]
    /\ outcomes[0][1]
    /\ globalHistory[0] % 2 = 1

\* C10 as stated: Hint::fromUInt(encode(h, f, b, o)) is
\* (h, f & 0x7FFF, b & 3, o & 0xFFF).
C10_RoundTrip ==
    fnRes # <<>>
        => fnRes[1] = [ history      |-> fnArg.h,
                        bool_formula |-> fnArg.f % 32768,
                        bias         |-> fnArg.b % 4,
                        pc_offset    |-> fnArg.o % 4096 ]

\* C10, amended: bit 28 of the word is both bit 0 of history and bit 14 of
\* bool_formula, so Hint::fromUInt(encode(h, f, b, o)) has
\* history = h | ((f >> 14) & 1), bool_formula = (f & 0x7FFF) | ((h & 1) << 14),
\* bias = b & 3 and pc_offset = o & 0xFFF; it is (h, f & 0x7FFF, b & 3,
\* o & 0xFFF) when bit 14 of f equals bit 0 of h.
C10_RoundTripSharedBit ==
    fnRes # <<>>
        => LET fbit == (fnArg.f \div 16384) % 2
               hbit == fnArg.h % 2
           IN  /\ fnRes[1].history = (IF fbit = 1 /\ hbit = 0
                                      THEN fnArg.h + 1 ELSE fnArg.h)
               /\ fnRes[1].bool_formula =
                      (IF hbit = 1 /\ fbit = 0
                       THEN (fnArg.f % 32768) + 16384 ELSE fnArg.f % 32768)
               /\ fnRes[1].bias = fnArg.b % 4
               /\ fnRes[1].pc_offset = fnArg.o % 4096
               /\ (fbit = hbit) => fnRes[1].history = fnArg.h
               /\ (fbit = hbit) => fnRes[1].bool_formula = fnArg.f % 32768

\* the decoder gave formula 0x4000 for encode(1, 0, 3, 4095)
C10_Witness ==
    /\ fnRes # <<>>
    /\ fnArg = [h |-> 1, f |-> 0, b |-> 3, o |-> 4095]
    /\ fnRes[1] = [ history |-> 1, bool_formula |-> 16384, bias |-> 3,
                    pc_offset |-> 4095 ]

\* the 2-input subunit as its table: 00 -> b1 AND b0, 01 -> b1 OR b0,
\* 10 -> b1 OR NOT b0, 11 -> b1 AND NOT b0
SubunitTable(sel, b1, b0) ==
    CASE sel = 0 -> b1 /\ b0
      [] sel = 1 -> b1 \/ b0
      [] sel = 2 -> b1 \/ ~b0
      [] sel = 3 -> b1 /\ ~b0

\* the 2-bit field of o whose low bit is bit lo
SelField(o, lo) == (o \div (2^lo)) % 4

\* bit k of b as a truth value
HistBit(b, k) == (b \div (2^k)) % 2 = 1

\* u6 of the formula tree over the table
TreeU6(o, b) ==
    LET u0 == SubunitTable(SelField(o, 0),  HistBit(b, 1), HistBit(b, 0))
        u1 == SubunitTable(SelField(o, 4),  HistBit(b, 3), HistBit(b, 2))
        u2 == SubunitTable(SelField(o, 2),  u1, u0)
        u3 == SubunitTable(SelField(o, 8),  HistBit(b, 5), HistBit(b, 4))
        u4 == SubunitTable(SelField(o, 12), HistBit(b, 7), HistBit(b, 6))
        u5 == SubunitTable(SelField(o, 10), u4, u3)
    IN  SubunitTable(SelField(o, 6), u5, u2)

\* C11: for every 15-bit selector o and 8-bit history b, ROMBFUnit(o, b) is
\* NOT u6 of the tree u0 = F(o[1:0], b[1:0]), u1 = F(o[5:4], b[3:2]),
\* u2 = F(o[3:2], {u1,u0}), u3 = F(o[9:8], b[5:4]), u4 = F(o[13:12], b[7:6]),
\* u5 = F(o[11:10], {u4,u3}), u6 = F(o[7:6], {u5,u2}); ROMBFUnit(0x5555, 0)
\* is 1.
C11_RombfIsNotU6 ==
    fnRes # <<>>
        => /\ fnRes[1] = ~TreeU6(fnArg.o, fnArg.b)
           /\ (fnArg.o = 21845 /\ fnArg.b = 0) => fnRes[1] = TRUE

\* ROMBFUnit(0x5555, 0x00) was evaluated and gave 1
C11_Witness ==
    /\ fnRes = <<TRUE>>
    /\ fnArg = [o |-> 21845, b |-> 0]

\* C12: on a predictor whose hintBufferSize is 0, a call of insert
\* completes, the hint buffer is empty after it, and every later lookup
\* misses.
C12_ZeroCapacityInsertCompletes ==
    /\ (fnArg.hint_buffer_size = 0 /\ InWhile)
           ~> (fnRes = <<>> /\ last.call.op = "insert" /\ hintBuffer = <<>>)
    /\ [](fnArg.hint_buffer_size = 0 /\ last.call.op = "lookup"
              => ~last.found)

\* the branch PC insert(pc, hint) stores the hint under
InsertedAddr(call) ==
    (call.pc + fromUInt(call.hint).pc_offset) % (2^AddrBits)

\* C13: when a hint has just been inserted for a branch PC of which the
\* buffer still holds an older copy, a lookup of that PC predicts by the
\* newly inserted hint word: it returns that word's prediction, or goes to
\* the fallback when that word declines.
C13_NewestCopyAuthoritative ==
    [][ ( /\ last.call.op = "insert"
          /\ last'.call.op = "lookup"
          /\ last'.call.pc = InsertedAddr(last.call)
          /\ \E i \in 1..(Len(hintBuffer) - 1) :
                 hintBuffer[i].addr = last'.call.pc )
        => LET p == predictWithHint(fromUInt(last.call.hint), globalHistory,
                                    last'.call.tid).pred
           IN  IF p = <<>> THEN fbCalls' = <<last'.call>>
               ELSE fbCalls' = <<>> /\ last'.ret = p[1] ]_vars

\* C14: update leaves Whisper's own state as it was: for both values of
\* squashed, with or without a hint for pc, the hint buffer (entries and
\* their front-to-back order) and every thread's global history are the
\* same before and after the call.
C14_UpdateFrame ==
    [][ last'.call.op = "update"
            => /\ hintBuffer' = hintBuffer
               /\ \A t \in Threads :
                      History(globalHistory', t) = History(globalHistory, t)
      ]_vars

\* the outcomes of scenario E, most recent first: 0, 1, 0, 1, 0, 1, 0, 1
ScenarioE_Outcomes == <<FALSE, TRUE, FALSE, TRUE, FALSE, TRUE, FALSE, TRUE>>

\* C15: scenario E: with a stored hint for pc with history selector 0,
\* formula F and bias 01, after 8 conditional updateHistories calls of one
\* thread with taken pattern 10101010, the most recent outcome being 0,
\* lookup(pc) on that thread returns ROMBF(F, 0b01010101).
C15_ScenarioE ==
    ( /\ last.call.op = "lookup" /\ last.found
      /\ FoundHint.bias = 1 /\ FoundHint.history = 0
      /\ outcomes[last.call.tid] = ScenarioE_Outcomes )
        => last.ret = ROMBFUnit(FoundHint.bool_formula, 85)

\* the history lengths of the specification for indices 0..15
HistLengthTable ==
    <<8, 11, 15, 21, 29, 40, 56, 77, 106, 147, 203, 281, 388, 536, 741, 1024>>

\* C16: the history field decoded from a hint word lies in 0..15 and
\* histLength returns the table value for it, so histLength never takes its
\* default branch (the assertion, 0 in the model) on a decoded word.
C16_HistLengthTable ==
    fnRes # <<>>
        => /\ fnRes[1].history \in 0..15
           /\ histLength(fnRes[1]) = HistLengthTable[fnRes[1].history + 1]
           /\ histLength(fnRes[1]) # 0

\* a word with history index 15 was decoded and has length 1024
C16_Witness ==
    /\ fnRes # <<>>
    /\ fnArg.h = 15
    /\ fnRes[1].history = 15
    /\ histLength(fnRes[1]) = 1024

\* C17: a branch whose lookup was delegated to fallback.lookup has the
\* updateHistories or update call that follows it for the same pc, with no
\* insert in between, forwarded to the fallback.
C17_DelegatedThenForwarded ==
    [][ ( /\ last.call.op = "lookup"
          /\ fbCalls = <<last.call>>
          /\ last'.call.op \in {"updateHistories", "update"}
          /\ last'.call.pc = last.call.pc
          /\ last'.call.tid = last.call.tid )
        => fbCalls' = <<last'.call>> ]_vars

\* C18: with insert calls interleaved in any way, the fallback receives the
\* updateHistories or update of a branch exactly when the latest lookup of
\* that branch was delegated to fallback.lookup.
C18_FallbackUpdatedIffDelegated ==
    [][ ( /\ fnRes # <<>>
          /\ last'.call.op \in {"updateHistories", "update"}
          /\ last'.call.pc = fnRes[1].pc
          /\ last'.call.tid = fnRes[1].tid )
        => (fbCalls' = <<last'.call>> <=> fnRes[1].delegated) ]_vars

\* how many times entry e occurs in buf
Occurrences(buf, e) == Cardinality({i \in 1..Len(buf) : buf[i] = e})

\* buf1 and buf2 hold the same multiset of entries
SameEntries(buf1, buf2) ==
    /\ Len(buf1) = Len(buf2)
    /\ \A i \in 1..Len(buf1) :
           Occurrences(buf1, buf1[i]) = Occurrences(buf2, buf1[i])

\* C19: lookup, update, updateHistories and squash leave the multiset of
\* (addr, hint) entries of the hint buffer unchanged; insert removes entries
\* from the front only and appends the new entry.
C19_OnlyInsertChangesEntries ==
    [][ /\ last'.call.op \in {"lookup", "update", "updateHistories", "squash"}
            => SameEntries(hintBuffer, hintBuffer')
        /\ last'.call.op = "insert"
            => \E k \in 0..Len(hintBuffer) :
                   hintBuffer' =
                       SubSeq(hintBuffer, k + 1, Len(hintBuffer))
                           \o <<[addr |-> InsertedAddr(last'.call),
                                 hint |-> last'.call.hint]>>
      ]_vars

\* an update that was not a squash hit an entry of a full buffer of two
\* different entries and left it at the back
C19_Witness ==
    /\ last.call.op = "update" /\ ~last.call.squashed /\ last.found
    /\ Len(hintBuffer) = 2
    /\ hintBuffer[2] = last.entry
    /\ hintBuffer[1] # hintBuffer[2]

\* C20: updateHistories of one thread leaves the register of every other
\* thread unchanged, and the value a lookup of thread t returns for a
\* formula hint over 8 bits of history is ROMBF over the conditional
\* outcomes of t alone.
C20_ThreadsIndependent ==
    [][ /\ last'.call.op = "updateHistories"
            => \A t \in Threads \ {last'.call.tid} :
                   History(globalHistory', t) = History(globalHistory, t)
        /\ ( /\ last'.call.op = "lookup" /\ last'.found
             /\ fromUInt(last'.entry.hint).bias \in {1, 2}
             /\ fromUInt(last'.entry.hint).history = 0 )
            => last'.ret =
                   ROMBFUnit(fromUInt(last'.entry.hint).bool_formula,
                             OutcomeBits(outcomes'[last'.call.tid], 8))
      ]_vars

=============================================================================
